---- MODULE Spec2Model ----
(***************************************************************************)
(* Model of the modal single-line input widget of yazi                     *)
(* (src/core/input/input.rs).  The widget owns a stack of snapshots        *)
(* (InputSnaps) and a one-shot completion channel.  Every public method    *)
(* of Input is one action; the methods are first written as operators on   *)
(* a record st = [vs, idx, panic, yanked, wok] so that a method that calls *)
(* another (type_ -> move_ -> handle_op -> tag) is one atomic step.        *)
(*                                                                         *)
(* Characters are one-character strings.  Char indices of the source are   *)
(* 0-based; the sequences here are 1-based, so the character with index n  *)
(* is value[n + 1].                                                        *)
(***************************************************************************)
EXTENDS Integers, Sequences, FiniteSets, TLC

VARIABLES
    versions,   \* InputSnaps: the sequence of snapshots
    idx,        \* InputSnaps: the live index, 1-based (0 while versions is empty)
    callback,   \* Input.callback: 0 for None, else the id of the channel held
    visible,    \* Input.visible
    fatal,      \* TRUE once a method has panicked (unwrap on None, unimplemented!)
    nshow,      \* number of show() calls so far: the id of the newest channel
    sent,       \* per channel id: the messages sent on it, in order
    first,      \* history: per channel id, the first close-like event after its show()
    last        \* history: the last call, what it returned, yanked and sent

vars == <<versions, idx, callback, visible, fatal, nshow, sent, first, last>>

-----------------------------------------------------------------------------
(* Bounds of the model *)

\* longest buffer the narrow characters are typed into
MaxLen == 2
\* most snapshots the history grows to before tagging calls are cut off
MaxVersions == 2
\* most show() calls of one run
MaxShows == 2
\* longest buffer of wide characters (must exceed (ViewWidth - Margin) / 2)
MaxWide == 25
\* longest buffer of the word motions
MaxWord == 4

(* Program constants *)

\* input.rs:133 and :339: the hard-coded width of the input box
ViewWidth == 50
\* input.rs:133: the columns taken off it
Margin == 2

\* Option::None of InputSnap.start (input.rs:78); the anchors are indices >= 0
NONE == -1

\* "a": a word character, " ": a space, ".": punctuation,
\* "W": a word character two columns wide and three bytes long (CJK)
Narrow == {"a", " ", "."}
Wide == "W"

Normal == "Normal"
Insert == "Insert"

OpNone == "None"
OpYank == "Yank"
OpDelete(insert) == IF insert THEN "Delete(true)" ELSE "Delete(false)"
IsDelete(op) == op \in {"Delete(true)", "Delete(false)"}
DeleteInsert(op) == op = "Delete(true)"

Min(a, b) == IF a <= b THEN a ELSE b
Max(a, b) == IF a >= b THEN a ELSE b
\* usize::saturating_sub
SatSub(a, b) == IF a >= b THEN a - b ELSE 0

-----------------------------------------------------------------------------
(* Characters: kind, display width, UTF-8 length *)

\* misc::CharKind::new
CharKind(c) == IF c = " " THEN "Space" ELSE IF c = "." THEN "Punct" ELSE "Word"

\* unicode_width: columns of one character
CharWidth(c) == IF c = Wide THEN 2 ELSE 1

\* UTF-8 bytes of one character
CharBytes(c) == IF c = Wide THEN 3 ELSE 1

\* UnicodeWidthStr::width
RECURSIVE Width(_)
Width(s) == IF s = <<>> THEN 0 ELSE CharWidth(Head(s)) + Width(Tail(s))

\* String::len, in bytes
RECURSIVE ByteLen(_)
ByteLen(s) == IF s = <<>> THEN 0 ELSE CharBytes(Head(s)) + ByteLen(Tail(s))

RECURSIVE Reverse(_)
Reverse(s) == IF s = <<>> THEN <<>> ELSE Append(Reverse(Tail(s)), Head(s))

\* the characters with indices a .. b-1
Chars0(s, a, b) == SubSeq(s, a + 1, b)

\* s without the characters with indices a .. b-1 (String::drain, remove, pop)
Drain(s, a, b) == SubSeq(s, 1, a) \o SubSeq(s, b + 1, Len(s))

\* s with c put before the character with index n (String::insert, push)
InsertAt(s, n, c) == SubSeq(s, 1, n) \o <<c>> \o SubSeq(s, n + 1, Len(s))

-----------------------------------------------------------------------------
(* InputSnap *)

\* InputSnap::new, as InputSnaps::reset uses it
NewSnap(value) ==
    [value |-> value, cursor |-> 0, offset |-> 0, mode |-> Insert,
     op |-> OpNone, start |-> NONE]

\* InputSnap::count: the number of characters
Count(snap) == Len(snap.value)

\* delta as it would be with Normal mode keeping no slot back
DeltaZero(mode) == 0

\* InputMode::delta
Delta(mode) == IF mode # Insert THEN 1 ELSE 0

\* InputSnap::find_window(s, offset): the characters from offset on that fit,
\* as a range of indices; `end` is all the callers read
FindWindowEnd(s, offset) ==
    LET fits(n) == Width(Chars0(s, offset, n)) < ViewWidth - Margin
        ns == {n \in (offset + 1)..Len(s) : \A m \in (offset + 1)..n : fits(m)}
    IN  IF ns = {} THEN 0 ELSE CHOOSE n \in ns : \A m \in ns : m <= n

\* InputSnap::range, the anchor paired with `cursor`:
\* [min, max) and one more when `include`
RangeOf(snap, cursor, include) ==
    [start |-> Min(snap.start, cursor),
     end   |-> Max(snap.start, cursor) + (IF include THEN 1 ELSE 0)]

\* InputSnap::range gives the anchor up: handle_op ends with none
TakeAnchor(snap) == [snap EXCEPT !.start = NONE]

\* InputSnap::idx(n) is Some for the indices 0 ..= count
IdxDefined(snap, n) == n <= Count(snap)

\* InputSnap::insert: allowed when no operator is pending
SnapInsertOk(snap) == snap.op = OpNone
SnapInsert(snap) == [snap EXCEPT !.mode = Insert]

\* InputSnap::visual: the cursor becomes the anchor
SnapVisual(snap) == [snap EXCEPT !.start = snap.cursor]

-----------------------------------------------------------------------------
(* InputSnaps *)

Cur(st) == st.vs[st.idx]
Put(st, snap) == [st EXCEPT !.vs[st.idx] = snap]
Ret(st, ret) == [st |-> st, ret |-> ret]

\* InputSnaps::reset
Reset(st, value) == [st EXCEPT !.vs = <<NewSnap(value)>>, !.idx = 1]

\* InputSnaps::tag: the live snapshot is copied forward, the redo tail dropped
Tag(st) ==
    [st EXCEPT !.vs = Append(SubSeq(st.vs, 1, st.idx), st.vs[st.idx]),
               !.idx = st.idx + 1]

\* InputSnaps::undo
SnapsUndo(st) ==
    IF st.idx <= 1 THEN Ret(st, FALSE) ELSE Ret([st EXCEPT !.idx = st.idx - 1], TRUE)

\* InputSnaps::redo
SnapsRedo(st) ==
    IF st.idx >= Len(st.vs) THEN Ret(st, FALSE)
    ELSE Ret([st EXCEPT !.idx = st.idx + 1], TRUE)

-----------------------------------------------------------------------------
(* Input: the methods, as operators from a stack st to [st, ret] *)

Panic(st) == Ret([st EXCEPT !.panic = TRUE], FALSE)

\* handle_op, lines 313-322: the operator is cleared, the cursor clamped for
\* the mode, and an undo point tagged when an operator was consumed
FinishOp(st, old, snap) ==
    LET done == [snap EXCEPT
                   !.op = OpNone,
                   !.cursor = Min(SatSub(Count(snap), Delta(snap.mode)), snap.cursor)]
    IN  IF done = old THEN Ret(Put(st, done), FALSE)
        ELSE IF old.op # OpNone THEN Ret(Tag(Put(st, done)), TRUE)
        ELSE Ret(Put(st, done), TRUE)

\* Input::handle_op
HandleOp(st, cursor, include) ==
    LET old == Cur(st)
        range == RangeOf(old, cursor, include)
        taken == TakeAnchor(old)
    IN  IF old.op = OpNone THEN FinishOp(st, old, [old EXCEPT !.cursor = cursor])
        ELSE IF old.start = NONE THEN Panic(st)
        ELSE IF ~IdxDefined(old, range.start) \/ ~IdxDefined(old, range.end)
             THEN Panic(Put(st, taken))
        ELSE IF IsDelete(old.op)
             THEN FinishOp(st, old,
                    [taken EXCEPT
                       !.value = Drain(old.value, range.start, range.end),
                       !.mode = IF DeleteInsert(old.op) THEN Insert ELSE Normal,
                       !.cursor = range.start])
        ELSE FinishOp(
               [st EXCEPT !.yanked =
                   IF st.wok
                   THEN Append(st.yanked, Chars0(old.value, range.start, range.end))
                   ELSE st.yanked],
               old, taken)

\* move_ as it would be without the branch `cursor < offset`
FixOffsetNoSnap(snap) ==
    LET delta == Delta(snap.mode)
        s == Chars0(snap.value, snap.offset, snap.cursor + delta)
    IN  IF snap.value = <<>> THEN [snap EXCEPT !.offset = 0]
        ELSE IF Width(s) >= ViewWidth - Margin
             THEN [snap EXCEPT !.offset =
                     snap.cursor - SatSub(FindWindowEnd(Reverse(s), 0), delta)]
        ELSE snap

\* Input::move_, lines 125-137: the viewport start follows the cursor
FixOffset(snap) ==
    LET delta == Delta(snap.mode)
        s == Chars0(snap.value, snap.offset, snap.cursor + delta)
    IN  IF snap.cursor < snap.offset THEN [snap EXCEPT !.offset = snap.cursor]
        ELSE IF snap.value = <<>> THEN [snap EXCEPT !.offset = 0]
        ELSE IF Width(s) >= ViewWidth - Margin
             THEN [snap EXCEPT !.offset =
                     snap.cursor - SatSub(FindWindowEnd(Reverse(s), 0), delta)]
        ELSE snap

\* Input::move_
Move(st, step) ==
    LET snap == Cur(st)
        target == IF step <= 0 THEN SatSub(snap.cursor, -step)
                  ELSE Min(Count(snap), snap.cursor + step)
        r == HandleOp(st, target, FALSE)
    IN  IF r.st.panic THEN r
        ELSE Ret(Put(r.st, FixOffset(Cur(r.st))), r.ret)

\* Input::move_in_operating
MoveInOperating(st, step) ==
    IF Cur(st).op = OpNone THEN Ret(st, FALSE) ELSE Move(st, step)

\* Input::escape
Escape(st) ==
    LET snap == Cur(st)
    IN  IF snap.mode = Normal
        THEN Ret(Tag(Put(st, [snap EXCEPT !.op = OpNone, !.start = NONE])), TRUE)
        ELSE LET r == Move(Put(st, [snap EXCEPT !.mode = Normal]), -1)
             IN  IF r.st.panic THEN r ELSE Ret(Tag(r.st), TRUE)

\* Input::insert
InsertMode(st, append) ==
    IF ~SnapInsertOk(Cur(st)) THEN Ret(st, FALSE)
    ELSE LET st1 == Put(st, SnapInsert(Cur(st)))
         IN  IF append THEN Ret(Move(st1, 1).st, ~Move(st1, 1).st.panic)
             ELSE Ret(st1, TRUE)

\* Input::visual
Visual(st) == Escape(Put(st, SnapVisual(Cur(st))))

\* Input::undo
Undo(st) == Escape(SnapsUndo(st).st)

\* Input::redo
Redo(st) == SnapsRedo(st)

\* backward as it would be going to 0 whatever the first character is
BackwardToStart(st) ==
    LET snap == Cur(st)
        r == Reverse(Chars0(snap.value, 0, Min(snap.cursor, Count(snap))))
        n == Len(r)
        hits == {i \in 1..(n - 1) :
                   CharKind(r[i]) # "Space" /\ CharKind(r[i]) # CharKind(r[i + 1])}
    IN  IF snap.cursor = 0 THEN Move(st, 0)
        ELSE IF r = <<>> THEN Panic(st)
        ELSE IF hits # {}
             THEN Move(st, -(CHOOSE i \in hits : \A j \in hits : i <= j))
        ELSE Move(st, -ByteLen(snap.value))

\* Input::backward
Backward(st) ==
    LET snap == Cur(st)
        \* value[..idx] reversed: the characters before the cursor, nearest first
        r == Reverse(Chars0(snap.value, 0, Min(snap.cursor, Count(snap))))
        n == Len(r)
        \* at step i of the loop prev is r[i] and c is r[i + 1]
        hits == {i \in 1..(n - 1) :
                   CharKind(r[i]) # "Space" /\ CharKind(r[i]) # CharKind(r[i + 1])}
    IN  IF snap.cursor = 0 THEN Move(st, 0)
        ELSE IF r = <<>> THEN Panic(st)
        ELSE IF hits # {}
             THEN Move(st, -(CHOOSE i \in hits : \A j \in hits : i <= j))
        ELSE IF CharKind(r[n]) # "Space" THEN Move(st, -ByteLen(snap.value))
        ELSE Ret(st, FALSE)

\* the test `b` as it would be without `i != 1`
ForwardHitNoSkip(r, i, end) ==
    IF end
    THEN CharKind(r[i]) # "Space" /\ CharKind(r[i]) # CharKind(r[i + 1])
    ELSE CharKind(r[i + 1]) # "Space" /\ CharKind(r[i + 1]) # CharKind(r[i])

\* Input::forward, line 180-184: the test `b` at step i of the loop,
\* where prev is r[i] and c is r[i + 1]
ForwardHit(r, i, end) ==
    IF end
    THEN CharKind(r[i]) # "Space" /\ CharKind(r[i]) # CharKind(r[i + 1]) /\ i # 1
    ELSE CharKind(r[i + 1]) # "Space" /\ CharKind(r[i + 1]) # CharKind(r[i])

\* Input::forward
Forward(st, end) ==
    LET snap == Cur(st)
        \* value.chars().skip(cursor)
        r == Chars0(snap.value, Min(snap.cursor, Count(snap)), Count(snap))
        hits == {i \in 1..(Len(r) - 1) : ForwardHit(r, i, end)}
        i0 == CHOOSE i \in hits : \A j \in hits : i <= j
    IN  IF snap.value = <<>> THEN Move(st, 0)
        ELSE IF r = <<>> THEN Panic(st)
        ELSE IF hits # {}
             THEN IF snap.op # OpNone THEN Move(st, i0)
                  ELSE Move(st, IF end THEN i0 - 1 ELSE i0)
        ELSE Move(st, ByteLen(snap.value))

\* Input::type_
Type(st, c) ==
    LET snap == Cur(st)
    IN  IF snap.cursor < 1
        THEN Move(Put(st, [snap EXCEPT !.value = InsertAt(snap.value, 0, c)]), 1)
        ELSE IF snap.cursor = Count(snap)
        THEN Move(Put(st, [snap EXCEPT !.value = Append(snap.value, c)]), 1)
        ELSE IF snap.cursor > Count(snap) THEN Panic(st)
        ELSE Move(Put(st, [snap EXCEPT
                             !.value = InsertAt(snap.value, snap.cursor, c)]), 1)

\* Input::backspace
Backspace(st) ==
    LET snap == Cur(st)
    IN  IF snap.cursor < 1 THEN Ret(st, FALSE)
        ELSE IF snap.cursor = Count(snap)
        THEN Move(Put(st, [snap EXCEPT
                             !.value = SubSeq(snap.value, 1, Count(snap) - 1)]), -1)
        ELSE IF snap.cursor - 1 >= Count(snap) THEN Panic(st)
        ELSE Move(Put(st, [snap EXCEPT
                             !.value = Drain(snap.value, snap.cursor - 1,
                                             snap.cursor)]), -1)

\* Input::delete and Input::yank, lines 223-226 and 246-249: the operator is
\* applied to the anchor a selection left; .then(|| move_(0)).is_some()
ApplyToAnchor(st, op) ==
    LET r == HandleOp(Put(st, [Cur(st) EXCEPT !.op = op]), Cur(st).cursor, TRUE)
    IN  IF r.st.panic \/ ~r.ret THEN r ELSE Ret(Move(r.st, 0).st, TRUE)

\* Input::delete and Input::yank, lines 228-231 and 251-254
StartOp(st, op) ==
    Ret(Put(st, [Cur(st) EXCEPT !.op = op, !.start = Cur(st).cursor]), FALSE)

\* delete given twice as it would be without value.clear()
DeleteAllNoClear(st, insert) ==
    LET r == Move(st, -ByteLen(Cur(st).value))
    IN  IF r.st.panic THEN r
        ELSE Ret(Put(r.st, [Cur(r.st) EXCEPT
                              !.mode = IF insert THEN Insert ELSE Normal]), TRUE)

\* Input::delete, lines 233-238: the operator given twice
DeleteAll(st, insert) ==
    LET r == Move(st, -ByteLen(Cur(st).value))
    IN  IF r.st.panic THEN r
        ELSE Ret(Put(r.st, [Cur(r.st) EXCEPT
                              !.value = <<>>,
                              !.mode = IF insert THEN Insert ELSE Normal]), TRUE)

\* delete as it would be with the arm Delete(..) taking every pending operator
DeleteAnyPending(st, insert) ==
    LET snap == Cur(st)
    IN  IF snap.op = OpNone
        THEN IF snap.start # NONE THEN ApplyToAnchor(st, OpDelete(insert))
             ELSE StartOp(st, OpDelete(insert))
        ELSE DeleteAll(st, insert)

\* Input::delete
Delete(st, insert) ==
    LET snap == Cur(st)
    IN  IF snap.op = OpNone
        THEN IF snap.start # NONE THEN ApplyToAnchor(st, OpDelete(insert))
             ELSE StartOp(st, OpDelete(insert))
        ELSE IF IsDelete(snap.op) THEN DeleteAll(st, insert)
        ELSE Ret(st, FALSE)

\* yank given twice as it would be without start = Some(0)
YankAllFromAnchor(st) ==
    LET r == Move(st, ByteLen(Cur(st).value))
    IN  Ret(r.st, FALSE)

\* Input::yank, lines 256-260: the operator given twice
YankAll(st) ==
    LET r == Move(Put(st, [Cur(st) EXCEPT !.start = 0]), ByteLen(Cur(st).value))
    IN  Ret(r.st, FALSE)

\* Input::yank
Yank(st) ==
    LET snap == Cur(st)
    IN  IF snap.op = OpNone
        THEN IF snap.start # NONE THEN ApplyToAnchor(st, OpYank)
             ELSE StartOp(st, OpYank)
        ELSE IF snap.op = OpYank THEN YankAll(st)
        ELSE Ret(st, FALSE)

\* Input::paste, lines 278-280: every character is typed
RECURSIVE TypeAll(_, _)
TypeAll(st, str) ==
    IF str = <<>> \/ st.panic THEN st
    ELSE TypeAll(Type(st, Head(str)).st, Tail(str))

\* paste as it would be with insert(true) whatever `before` is
PasteAppend(st, before, str) ==
    LET st1 == IF Cur(st).start # NONE
               THEN HandleOp(Put(st, [Cur(st) EXCEPT !.op = OpDelete(FALSE)]),
                             Cur(st).cursor, TRUE).st
               ELSE st
        st2 == InsertMode(st1, TRUE).st
        st3 == TypeAll(st2, str)
    IN  IF st1.panic THEN Ret(st1, FALSE)
        ELSE IF str = <<>> THEN Ret(st1, FALSE)
        ELSE IF st3.panic THEN Ret(st3, FALSE)
        ELSE Ret(Escape(st3).st, ~Escape(st3).st.panic)

\* Input::paste; str is what the clipboard read gave ("" when it failed)
Paste(st, before, str) ==
    LET st1 == IF Cur(st).start # NONE
               THEN HandleOp(Put(st, [Cur(st) EXCEPT !.op = OpDelete(FALSE)]),
                             Cur(st).cursor, TRUE).st
               ELSE st
        st2 == InsertMode(st1, ~before).st
        st3 == TypeAll(st2, str)
    IN  IF st1.panic THEN Ret(st1, FALSE)
        ELSE IF str = <<>> THEN Ret(st1, FALSE)
        ELSE IF st3.panic THEN Ret(st3, FALSE)
        ELSE Ret(Escape(st3).st, ~Escape(st3).st.panic)

-----------------------------------------------------------------------------
(* The state machine *)

\* the stack the methods work on; wok: the clipboard write of this call succeeds
Stack(wok) ==
    [vs |-> versions, idx |-> idx, panic |-> FALSE, yanked |-> <<>>, wok |-> wok]

\* a call of an editing method, <<name, arguments...>>, on the stack st
Result(st, call) ==
    CASE call[1] = "escape" -> Escape(st)
      [] call[1] = "insert" -> InsertMode(st, call[2])
      [] call[1] = "visual" -> Visual(st)
      [] call[1] = "undo" -> Undo(st)
      [] call[1] = "redo" -> Redo(st)
      [] call[1] = "move_" -> Move(st, call[2])
      [] call[1] = "move_in_operating" -> MoveInOperating(st, call[2])
      [] call[1] = "backward" -> Backward(st)
      [] call[1] = "forward" -> Forward(st, call[2])
      [] call[1] = "type_" -> Type(st, call[2])
      [] call[1] = "backspace" -> Backspace(st)
      [] call[1] = "delete" -> Delete(st, call[2])
      [] call[1] = "yank" -> Yank(st)
      [] call[1] = "paste" -> Paste(st, call[2], call[3])

\* the host hands the keys to the widget while it is shown
Shown == visible /\ ~fatal

\* the outcomes of the clipboard write of a call: one can happen only when a
\* Yank is resolved, by a motion or on the anchor of a selection
Writes ==
    IF Shown /\ (versions[idx].op = OpYank \/ versions[idx].start # NONE)
    THEN BOOLEAN ELSE {TRUE}

\* an editing method was called and ran to its end with r; the call is noted
Edit(call, r) ==
    /\ Len(r.st.vs) <= MaxVersions
    /\ versions' = r.st.vs
    /\ idx' = r.st.idx
    /\ fatal' = r.st.panic
    /\ last' = [call |-> call, ret |-> r.ret, yanked |-> r.st.yanked, msgs |-> <<>>]
    /\ UNCHANGED <<callback, visible, nshow, sent, first>>

\* the first close-like event after the newest show()
Firstly(event) ==
    IF nshow >= 1 /\ first[nshow] = "none"
    THEN [first EXCEPT ![nshow] = event] ELSE first

\* Input::close, lines 64-67: the channel is taken and the message sent on it
Send(submit) ==
    IF callback = 0 THEN <<>>
    ELSE IF submit THEN <<[ch |-> callback, ok |-> TRUE, val |-> versions[idx].value]>>
    ELSE <<[ch |-> callback, ok |-> FALSE, val |-> <<>>]>>

\* what the receivers have got
Deliver(msgs) ==
    IF msgs = <<>> THEN sent
    ELSE [sent EXCEPT ![msgs[1].ch] =
            Append(@, IF msgs[1].ok THEN "ok" ELSE "canceled")]

\* Input::show; most: the number of show() calls of a run
show(value, position, most) ==
    /\ ~fatal
    /\ nshow < most
    /\ sent' = Deliver(Send(FALSE))
    /\ versions' = Reset(Stack(TRUE), value).vs
    /\ idx' = Reset(Stack(TRUE), value).idx
    /\ nshow' = nshow + 1
    /\ first' = Firstly("show")
    /\ IF position = "Coords"
       THEN callback' = nshow + 1 /\ visible' = TRUE /\ fatal' = FALSE
       ELSE callback' = 0 /\ visible' = FALSE /\ fatal' = TRUE
    /\ last' = [call |-> <<"show", value, position>>, ret |-> TRUE,
                yanked |-> <<>>, msgs |-> Send(FALSE)]

\* close() as it would be with the channel read but left in place (no take())
close_keeps(submit) ==
    /\ ~fatal
    /\ sent' = Deliver(Send(submit))
    /\ callback' = callback
    /\ visible' = FALSE
    /\ first' = Firstly(IF submit THEN "submit" ELSE "cancel")
    /\ last' = [call |-> <<"close", submit>>, ret |-> TRUE,
                yanked |-> <<>>, msgs |-> Send(submit)]
    /\ UNCHANGED <<versions, idx, fatal, nshow>>

\* Input::close
close(submit) ==
    /\ ~fatal
    /\ sent' = Deliver(Send(submit))
    /\ callback' = 0
    /\ visible' = FALSE
    /\ first' = Firstly(IF submit THEN "submit" ELSE "cancel")
    /\ last' = [call |-> <<"close", submit>>, ret |-> TRUE,
                yanked |-> <<>>, msgs |-> Send(submit)]
    /\ UNCHANGED <<versions, idx, fatal, nshow>>

escape ==
    /\ Shown
    /\ \E wok \in Writes : Edit(<<"escape">>, Escape(Stack(wok)))

insert(append) ==
    /\ Shown
    /\ \E wok \in Writes : Edit(<<"insert", append>>, InsertMode(Stack(wok), append))

visual ==
    /\ Shown
    /\ \E wok \in Writes : Edit(<<"visual">>, Visual(Stack(wok)))

undo ==
    /\ Shown
    /\ \E wok \in Writes : Edit(<<"undo">>, Undo(Stack(wok)))

redo ==
    /\ Shown
    /\ \E wok \in Writes : Edit(<<"redo">>, Redo(Stack(wok)))

move_(step) ==
    /\ Shown
    /\ \E wok \in Writes : Edit(<<"move_", step>>, Move(Stack(wok), step))

move_in_operating(step) ==
    /\ Shown
    /\ \E wok \in Writes : Edit(<<"move_in_operating", step>>, MoveInOperating(Stack(wok), step))

backward ==
    /\ Shown
    /\ \E wok \in Writes : Edit(<<"backward">>, Backward(Stack(wok)))

forward(end) ==
    /\ Shown
    /\ \E wok \in Writes : Edit(<<"forward", end>>, Forward(Stack(wok), end))

\* cap: the buffer length up to which the character is typed
type_(c, cap) ==
    /\ Shown
    /\ Len(versions[idx].value) < cap
    /\ \E wok \in Writes : Edit(<<"type_", c>>, Type(Stack(wok), c))

backspace ==
    /\ Shown
    /\ \E wok \in Writes : Edit(<<"backspace">>, Backspace(Stack(wok)))

delete(ins) ==
    /\ Shown
    /\ \E wok \in Writes : Edit(<<"delete", ins>>, Delete(Stack(wok), ins))

yank ==
    /\ Shown
    /\ \E wok \in Writes : Edit(<<"yank">>, Yank(Stack(wok)))

\* cap: the buffer length up to which the clipboard is pasted
paste(before, str, cap) ==
    /\ Shown
    /\ Len(versions[idx].value) + Len(str) <= cap
    /\ \E wok \in Writes : Edit(<<"paste", before, str>>, Paste(Stack(wok), before, str))

Init ==
    /\ versions = <<>>
    /\ idx = 0
    /\ callback = 0
    /\ visible = FALSE
    /\ fatal = FALSE
    /\ nshow = 0
    /\ sent = [ch \in 1..MaxShows |-> <<>>]
    /\ first = [ch \in 1..MaxShows |-> "none"]
    /\ last = [call |-> <<"new">>, ret |-> TRUE, yanked |-> <<>>, msgs |-> <<>>]

\* the values show() is given, the steps of the key bindings, the clipboard
ShowValues == {<<>>, <<"a", ".">>}
Positions == {"Coords", "Hovered"}
Steps == {-999, -1, 1, 999}
ClipTexts == {<<>>, <<"a">>, <<".", " ">>}

\* one show(), then every method with narrow characters
Next ==
    \/ \E v \in ShowValues, p \in Positions : show(v, p, 1)
    \/ \E b \in BOOLEAN : close(b)
    \/ escape
    \/ \E b \in BOOLEAN : insert(b)
    \/ visual
    \/ undo
    \/ redo
    \/ \E s \in Steps : move_(s)
    \/ \E s \in Steps : move_in_operating(s)
    \/ backward
    \/ \E e \in BOOLEAN : forward(e)
    \/ \E c \in Narrow : type_(c, MaxLen)
    \/ backspace
    \/ \E i \in BOOLEAN : delete(i)
    \/ yank
    \/ \E b \in BOOLEAN, s \in ClipTexts : paste(b, s, MaxLen)

Spec == Init /\ [][Next]_vars

\* the completion channel: MaxShows show() calls, close() and editing between
NextChan ==
    \/ \E v \in ShowValues, p \in Positions : show(v, p, MaxShows)
    \/ \E b \in BOOLEAN : close(b)
    \/ \E c \in {"a", " "} : type_(c, MaxLen)
    \/ backspace
    \/ escape
    \/ \E s \in {-1, 1} : move_(s)
    \/ \E i \in BOOLEAN : delete(i)

SpecChan == Init /\ [][NextChan]_vars

\* typing only: narrow characters into short buffers, wide ones up to MaxWide
NextType ==
    \/ \E v \in ShowValues : show(v, "Coords", 1)
    \/ \E c \in Narrow : type_(c, MaxLen)
    \/ type_(Wide, MaxWide)
    \/ backspace

SpecType == Init /\ [][NextType]_vars

\* a buffer of wide characters, as wide as the box
WideValue == [i \in 1..(MaxWide - 1) |-> Wide]
ViewSteps == {-999, -1, 999}

\* the viewport: every method that moves the cursor of a buffer that scrolls
NextView ==
    \/ show(WideValue, "Coords", 1)
    \/ escape
    \/ visual
    \/ undo
    \/ \E s \in ViewSteps : move_(s)
    \/ backward
    \/ delete(FALSE)
    \/ \E b \in BOOLEAN : paste(b, <<>>, MaxWide)

SpecView == Init /\ [][NextView]_vars

\* every buffer of words, spaces and punctuation up to MaxWord characters
WordValues == UNION {[1..n -> Narrow] : n \in 0..MaxWord}
WordSteps == {-1, 1}

\* the word motions and paste, on every such buffer, in both modes
NextWord ==
    \/ \E v \in WordValues : show(v, "Coords", 1)
    \/ escape
    \/ \E b \in BOOLEAN : insert(b)
    \/ \E s \in WordSteps : move_(s)
    \/ backward
    \/ \E e \in BOOLEAN : forward(e)
    \/ \E b \in BOOLEAN, s \in ClipTexts : paste(b, s, MaxWord)

SpecWord == Init /\ [][NextWord]_vars

-----------------------------------------------------------------------------
(* Properties *)

\* the live snapshot; the widget holds one and has not panicked
Live == versions[idx]
Alive == versions # <<>> /\ ~fatal

\* value, cursor, offset and mode of a snapshot
Face(snap) == <<snap.value, snap.cursor, snap.offset, snap.mode>>

MotionCalls ==
    {<<"move_", s>> : s \in Steps} \cup {<<"move_in_operating", s>> : s \in Steps}
    \cup {<<"backward">>} \cup {<<"forward", e>> : e \in BOOLEAN}

\* C1: every channel handed to show() gets at most one message: Ok(the buffer
\* at that moment) when the first close after its show() is close(true), the
\* cancellation when it is close(false) or the next show(); later closes send
\* nothing on it.
C1_FireOnce ==
    /\ \A ch \in 1..MaxShows :
          /\ Len(sent[ch]) <= 1
          /\ first[ch] = "none" => sent[ch] = <<>>
          /\ first[ch] = "submit" => sent[ch] = <<"ok">>
          /\ first[ch] \in {"cancel", "show"} => sent[ch] = <<"canceled">>
    /\ \A i \in 1..Len(last.msgs) :
          /\ last.msgs[i].ok <=> last.call = <<"close", TRUE>>
          /\ last.msgs[i].ok => last.msgs[i].val = versions[idx].value

\* C1, its case: the first channel was cancelled by the second show(), the
\* second one submitted with a buffer typed into, and a later close sent nothing
C1_Witness ==
    /\ nshow = 2 /\ first[1] = "show" /\ first[2] = "submit"
    /\ sent[1] = <<"canceled">> /\ sent[2] = <<"ok">>
    /\ last.call = <<"close", FALSE>> /\ last.msgs = <<>>
    /\ versions[idx].value # <<>>

\* C2: from Normal mode with nothing pending, delete(false), a motion that
\* deletes a non-empty range, then undo() leave the text and the cursor as
\* they were before the delete(false).
C2_RoundTrip ==
    (Alive /\ Live.mode = Normal /\ Live.op = OpNone /\ Live.start = NONE) =>
        \A m \in MotionCalls :
            LET r1 == Delete(Stack(TRUE), FALSE)
                r2 == Result(r1.st, m)
                r3 == Undo(r2.st)
            IN  (~r2.st.panic /\ Count(Cur(r2.st)) < Count(Live)) =>
                    /\ ~r3.st.panic
                    /\ Cur(r3.st).value = Live.value
                    /\ Cur(r3.st).cursor = Live.cursor

\* C3: after an undo() that moved back to an earlier undo point, redo()
\* succeeds and restores the snapshot that was current before the undo.
C3_RedoAfterUndo ==
    (Alive /\ idx > 1) =>
        LET u == Undo(Stack(TRUE))
            r == Redo(u.st)
        IN  ~u.st.panic => (r.ret /\ Face(Cur(r.st)) = Face(Live))

\* C4: undo() with no earlier snapshot returns false and changes neither the
\* live snapshot nor the history.
C4_UndoAtStart ==
    (Alive /\ idx = 1) =>
        LET u == Undo(Stack(TRUE))
        IN  ~u.ret /\ u.st.vs = versions /\ u.st.idx = idx

\* C5: after show(), every type_ and backspace leaves cursor <= count and
\* offset <= cursor.
C5_TypeBounds ==
    Alive => (Live.cursor <= Count(Live) /\ Live.offset <= Live.cursor)

\* C5, its case: a buffer typed until it scrolled, and a backspace in it
C5_Witness ==
    /\ Alive /\ Live.offset > 0 /\ Live.cursor = Count(Live)
    /\ last.call = <<"backspace">> /\ last.ret

\* the calls of the viewport specification
ViewCalls ==
    {<<"escape">>, <<"visual">>, <<"undo">>, <<"backward">>, <<"delete", FALSE>>}
    \cup {<<"move_", s>> : s \in ViewSteps}
    \cup {<<"paste", b, <<>>>> : b \in BOOLEAN}

\* C6: after every public operation offset <= cursor holds for the live
\* snapshot.
C6_OffsetBeforeCursor ==
    Alive =>
        /\ Live.offset <= Live.cursor
        /\ Shown =>
             \A c \in ViewCalls :
                 LET r == Result(Stack(TRUE), c)
                 IN  ~r.st.panic => Cur(r.st).offset <= Cur(r.st).cursor

\* C7: cursor <= count always; in Normal mode the cursor is at most count - 1
\* when the buffer is not empty, and 0 when it is.
C7_CursorBounds ==
    Alive =>
        /\ Live.cursor <= Count(Live)
        /\ (Live.mode = Normal /\ Live.value # <<>>) => Live.cursor <= Count(Live) - 1
        /\ (Live.mode = Normal /\ Live.value = <<>>) => Live.cursor = 0

\* C7, its case: a motion to the end of a non-empty buffer in Normal mode
C7_Witness ==
    /\ Alive /\ Live.mode = Normal /\ Count(Live) = MaxLen
    /\ Live.cursor = Count(Live) - 1
    /\ last.call = <<"move_", 999>> /\ last.ret

\* C8: from Normal mode with no anchor and nothing pending, delete(i) twice
\* returns true and leaves the buffer empty, the cursor 0, nothing pending,
\* the mode Insert when i and Normal otherwise, and one more undo tag.
C8_DeleteTwice ==
    (Alive /\ Live.mode = Normal /\ Live.op = OpNone /\ Live.start = NONE) =>
        \A i \in BOOLEAN :
            LET r1 == Delete(Stack(TRUE), i)
                r2 == Delete(r1.st, i)
                snap == Cur(r2.st)
            IN  /\ ~r1.ret /\ r1.st.vs = [versions EXCEPT ![idx] =
                                 [Live EXCEPT !.op = OpDelete(i), !.start = Live.cursor]]
                /\ ~r2.st.panic /\ r2.ret
                /\ snap.value = <<>> /\ snap.cursor = 0 /\ snap.op = OpNone
                /\ snap.mode = IF i THEN Insert ELSE Normal
                /\ Len(r2.st.vs) = Len(versions) + 1 /\ r2.st.idx = idx + 1

\* C8, its case: in Normal mode the first delete(false) left the operator
\* pending on a non-empty buffer, and the second one empties it
C8_Witness ==
    /\ Alive /\ Shown /\ Live.mode = Normal /\ Live.value # <<>> /\ Live.cursor > 0
    /\ Live.op = OpDelete(FALSE) /\ Live.start = Live.cursor
    /\ last.call = <<"delete", FALSE>> /\ ~last.ret
    /\ Delete(Stack(TRUE), FALSE).ret
    /\ Cur(Delete(Stack(TRUE), FALSE).st).value = <<>>

\* C9 as written: a second yank() while Yank is pending leaves the anchor at
\* 0 and the cursor at the end of the buffer, the text unchanged, returns
\* false and records no undo tag.
C9_YankAllSelects ==
    (Alive /\ Live.op = OpYank) =>
        \A w \in BOOLEAN :
            LET r == Yank(Stack(w))
                snap == Cur(r.st)
            IN  /\ ~r.st.panic /\ ~r.ret
                /\ snap.start = 0
                /\ snap.cursor = SatSub(Count(snap), Delta(snap.mode))
                /\ snap.value = Live.value
                /\ Len(r.st.vs) = Len(versions)

\* C9, amended: a second yank() while Yank is pending yanks the whole buffer:
\* it returns false, the text, the cursor and the mode are unchanged, no
\* operator and no anchor remain, one undo tag is recorded, and a clipboard
\* write that succeeds carries the entire text.
C9_YankAll ==
    (Alive /\ Live.op = OpYank) =>
        \A w \in BOOLEAN :
            LET r == Yank(Stack(w))
                snap == Cur(r.st)
            IN  /\ ~r.st.panic /\ ~r.ret
                /\ snap.value = Live.value /\ snap.cursor = Live.cursor
                /\ snap.mode = Live.mode
                /\ snap.op = OpNone /\ snap.start = NONE
                /\ Len(r.st.vs) = Len(versions) + 1 /\ r.st.idx = idx + 1
                /\ r.st.yanked = IF w THEN <<Live.value>> ELSE <<>>

\* C9, its case: yank() twice on a non-empty buffer with the cursor inside it
C9_Witness ==
    /\ Alive /\ last.call = <<"yank">> /\ ~last.ret
    /\ last.yanked = <<Live.value>> /\ Count(Live) = MaxLen /\ Live.cursor > 0
    /\ Live.op = OpNone /\ Len(versions) = 2

\* C10: delete(_) while Yank is pending and yank() while Delete(_) is pending
\* return false and change nothing.
C10_Mismatch ==
    Alive =>
        /\ Live.op = OpYank =>
             \A i \in BOOLEAN, w \in BOOLEAN :
                 Delete(Stack(w), i) = Ret(Stack(w), FALSE)
        /\ IsDelete(Live.op) =>
             \A w \in BOOLEAN : Yank(Stack(w)) = Ret(Stack(w), FALSE)

\* C10, its case: a delete was refused while Yank stays pending
C10_Witness ==
    /\ Alive /\ Live.op = OpYank /\ Live.start # NONE /\ Live.value # <<>>
    /\ last.call = <<"delete", TRUE>> /\ ~last.ret

\* C11: paste(true) with a non-empty clipboard s and no anchor, at cursor c,
\* returns true and leaves the old text with s inserted before the character
\* at index c, the mode Normal and the cursor at c + length(s) - 1.
C11_PasteBefore ==
    (Alive /\ Shown /\ Live.start = NONE) =>
        \A s \in ClipTexts \ {<<>>} :
            LET r == Paste(Stack(TRUE), TRUE, s)
                snap == Cur(r.st)
                c == Live.cursor
            IN  /\ ~r.st.panic /\ r.ret
                /\ snap.value = SubSeq(Live.value, 1, c) \o s
                                   \o SubSeq(Live.value, c + 1, Count(Live))
                /\ snap.mode = Normal
                /\ snap.cursor = c + Len(s) - 1

\* C11, its case: two characters were pasted before the character under the
\* cursor of a buffer with text after it
C11_Witness ==
    /\ Alive /\ last.call = <<"paste", TRUE, <<".", " ">>>> /\ last.ret
    /\ Live.mode = Normal /\ Live.cursor = 2 /\ Count(Live) = MaxWord
    /\ SubSeq(Live.value, 2, 3) = <<".", " ">>

\* C12: paste(before) with an empty clipboard text is a no-op in every
\* reachable state: it returns false and changes neither the live snapshot
\* nor the history.
C12_PasteEmpty ==
    (Alive /\ Shown) =>
        \A b \in BOOLEAN : Paste(Stack(TRUE), b, <<>>) = Ret(Stack(TRUE), FALSE)

\* C13 as written: with no operator pending, forward(true) on a buffer with a
\* non-space run ending after the cursor puts the cursor on the last
\* character of the first such run, in every mode.
C13_ForwardEndAnyMode ==
    (Alive /\ Shown /\ Live.op = OpNone) =>
        LET c == Live.cursor
            n == Count(Live)
            kind(j) == CharKind(Live.value[j + 1])
            ends == {j \in (c + 1)..(n - 1) :
                       kind(j) # "Space" /\ (j = n - 1 \/ kind(j + 1) # kind(j))}
            r == Forward(Stack(TRUE), TRUE)
        IN  ends # {} =>
                /\ ~r.st.panic
                /\ Cur(r.st).cursor = CHOOSE j \in ends : \A k \in ends : j <= k
                /\ Cur(r.st).cursor <= n - 1

\* C13, amended: the same in Normal mode; in Insert mode the cursor lands on
\* the last character of that run when text follows the run, and at count,
\* one past the last character, when the run ends the buffer.
C13_ForwardEnd ==
    (Alive /\ Shown /\ Live.op = OpNone) =>
        LET c == Live.cursor
            n == Count(Live)
            kind(j) == CharKind(Live.value[j + 1])
            ends == {j \in (c + 1)..(n - 1) :
                       kind(j) # "Space" /\ (j = n - 1 \/ kind(j + 1) # kind(j))}
            e == CHOOSE j \in ends : \A k \in ends : j <= k
            r == Forward(Stack(TRUE), TRUE)
        IN  ends # {} =>
                /\ ~r.st.panic /\ r.ret
                /\ Cur(r.st).value = Live.value /\ Cur(r.st).mode = Live.mode
                /\ Cur(r.st).cursor =
                       IF Live.mode = Insert /\ e = n - 1 THEN n ELSE e

\* C13, its case: forward(true) went from inside one word to the end of the
\* next run, with text after it
C13_Witness ==
    /\ Alive /\ last.call = <<"forward", TRUE>> /\ last.ret
    /\ Live.value = <<"a", " ", ".", "a">> /\ Live.cursor = 2 /\ Live.op = OpNone

\* C14: with no operator pending, forward(false) from cursor c moves the
\* cursor to the smallest index j > c whose character is not a space and
\* differs in kind from the one before it, and to the last position the mode
\* allows when there is none.
C14_ForwardStart ==
    (Alive /\ Shown /\ Live.op = OpNone) =>
        LET c == Live.cursor
            n == Count(Live)
            kind(j) == CharKind(Live.value[j + 1])
            starts == {j \in (c + 1)..(n - 1) :
                         kind(j) # "Space" /\ kind(j) # kind(j - 1)}
            r == Forward(Stack(TRUE), FALSE)
        IN  /\ ~r.st.panic
            /\ Cur(r.st).cursor =
                   IF starts # {} THEN CHOOSE j \in starts : \A k \in starts : j <= k
                   ELSE SatSub(n, Delta(Live.mode))

\* C15: escape() in Insert mode, from any reachable state, returns true and
\* leaves Normal mode, the cursor at max(old cursor - 1, 0) and the text
\* unchanged.
C15_EscapeInsert ==
    (Alive /\ Shown /\ Live.mode = Insert) =>
        \A w \in BOOLEAN :
            LET r == Escape(Stack(w))
            IN  /\ ~r.st.panic /\ r.ret
                /\ Cur(r.st).mode = Normal
                /\ Cur(r.st).cursor = SatSub(Live.cursor, 1)
                /\ Cur(r.st).value = Live.value

\* C16: a pending Delete(insert) with anchor s resolved by a motion to t
\* removes the characters [min(s,t), max(s,t)), and delete(insert) applied to
\* the anchor of a selection those up to and with max(s,t); either sets the
\* cursor to min(s,t) clamped for the new mode, the mode per `insert`, clears
\* operator and anchor and records one undo tag.
C16_DeleteRange ==
    (Alive /\ Shown /\ Live.start # NONE) =>
        LET s == Live.start
            c == Live.cursor
            n == Count(Live)
            done(r, t, incl, ins) ==
                LET lo == Min(s, t)
                    hi == Max(s, t) + incl
                    snap == Cur(r.st)
                    mode == IF ins THEN Insert ELSE Normal
                IN  /\ ~r.st.panic
                    /\ snap.value = SubSeq(Live.value, 1, lo)
                                       \o SubSeq(Live.value, hi + 1, n)
                    /\ Len(snap.value) = n - (hi - lo)
                    /\ snap.mode = mode
                    /\ snap.cursor = Min(SatSub(Count(snap), Delta(mode)), lo)
                    /\ snap.op = OpNone /\ snap.start = NONE
                    /\ Len(r.st.vs) = Len(versions) + 1 /\ r.st.idx = idx + 1
        IN  /\ IsDelete(Live.op) =>
                \A step \in Steps :
                    done(Move(Stack(TRUE), step),
                         IF step <= 0 THEN SatSub(c, -step) ELSE Min(n, c + step),
                         0, DeleteInsert(Live.op))
            /\ Live.op = OpNone =>
                \A i \in BOOLEAN : done(Delete(Stack(TRUE), i), c, 1, i)

\* C17: type_(c) returns the old text with c inserted at the old cursor
\* index, one character more, and the cursor advanced by one.
C17_TypeInserts ==
    (Alive /\ Shown) =>
        \A ch \in Narrow :
            LET r == Type(Stack(TRUE), ch)
                c == Live.cursor
            IN  /\ ~r.st.panic
                /\ Cur(r.st).value = SubSeq(Live.value, 1, c) \o <<ch>>
                                        \o SubSeq(Live.value, c + 1, Count(Live))
                /\ Count(Cur(r.st)) = Count(Live) + 1
                /\ Cur(r.st).cursor = c + 1

\* the motions of the key bindings, as calls
StepCalls ==
    {<<"move_", s>> : s \in Steps} \cup {<<"move_in_operating", s>> : s \in Steps}

\* C18: resolving a Yank, by a motion while Yank is pending or by yank() on
\* the anchor of a selection, leaves the text and the mode as they were and
\* neither operator nor anchor, whether or not the clipboard write succeeds.
C18_YankResolves ==
    (Alive /\ Shown /\ Live.start # NONE) =>
        \A w \in BOOLEAN :
            LET done(r) ==
                    /\ ~r.st.panic
                    /\ Cur(r.st).value = Live.value /\ Cur(r.st).mode = Live.mode
                    /\ Cur(r.st).op = OpNone /\ Cur(r.st).start = NONE
            IN  /\ Live.op = OpYank => \A m \in StepCalls : done(Result(Stack(w), m))
                /\ Live.op = OpNone => done(Yank(Stack(w)))

\* C19: no operator resolution is fatal: a pending operator has its anchor,
\* and a motion with an operator pending, delete() or yank() on the anchor
\* of a selection, and paste() on one, all run handle_op to its end.
C19_NoFatalResolution ==
    (Alive /\ Shown) =>
        /\ Live.op # OpNone => Live.start # NONE
        /\ \A w \in BOOLEAN :
            /\ Live.op # OpNone =>
                 \A m \in StepCalls : ~Result(Stack(w), m).st.panic
            /\ (Live.op = OpNone /\ Live.start # NONE) =>
                 /\ \A i \in BOOLEAN : ~Delete(Stack(w), i).st.panic
                 /\ ~Yank(Stack(w)).st.panic
                 /\ \A b \in BOOLEAN : ~Paste(Stack(w), b, <<>>).st.panic

\* C20 as written: with no operator pending and cursor > 0, backward()
\* strictly decreases the cursor and lands at 0 or on the first character of
\* a non-space run, with only that run and spaces between the new and the
\* old cursor.
C20_BackwardMoves ==
    (Alive /\ Shown /\ Live.op = OpNone /\ Live.cursor > 0) =>
        LET c == Live.cursor
            kind(j) == CharKind(Live.value[j + 1])
            r == Backward(Stack(TRUE))
            d == Cur(r.st).cursor
        IN  /\ ~r.st.panic
            /\ d < c
            /\ d = 0 \/ (kind(d) # "Space" /\ kind(d) # kind(d - 1))
            /\ \E k \in (d + 1)..c :
                  /\ \A j \in d..(k - 1) : kind(j) = kind(d)
                  /\ \A j \in k..(c - 1) : kind(j) = "Space"

\* C20, amended: with no operator pending and cursor > 0, backward() returns
\* false and changes nothing when only spaces precede the cursor; otherwise
\* it strictly decreases the cursor and lands on the first character of a
\* non-space run - index 0 or an index whose character differs in kind from
\* the one before it - with only that run and spaces between the new and the
\* old cursor.
C20_Backward ==
    (Alive /\ Shown /\ Live.op = OpNone /\ Live.cursor > 0) =>
        LET c == Live.cursor
            kind(j) == CharKind(Live.value[j + 1])
            r == Backward(Stack(TRUE))
            d == Cur(r.st).cursor
        IN  IF \A j \in 0..(c - 1) : kind(j) = "Space"
            THEN r = Ret(Stack(TRUE), FALSE)
            ELSE /\ ~r.st.panic
                 /\ Cur(r.st).value = Live.value /\ Cur(r.st).mode = Live.mode
                 /\ d < c
                 /\ kind(d) # "Space"
                 /\ d = 0 \/ kind(d) # kind(d - 1)
                 /\ \E k \in (d + 1)..c :
                       /\ \A j \in d..(k - 1) : kind(j) = kind(d)
                       /\ \A j \in k..(c - 1) : kind(j) = "Space"

\* C20, its case: backward() went over spaces to the start of the word
\* before them, a word that does not start the buffer
C20_Witness ==
    /\ Alive /\ last.call = <<"backward">> /\ last.ret /\ Live.op = OpNone
    /\ Live.value = <<".", "a", " ", "a">> /\ Live.cursor = 1

====
